---- MODULE Spec2Model ----
(***************************************************************************)
(* Move-legality engine and board model of the circus agent.               *)
(* The model follows src/unnamed/part_001 (the latest variant of the       *)
(* engine); src/main.cpp holds the same checkMove and the same move        *)
(* appliers, and differs in Field::doMove only by an assert in the         *)
(* ILLEGAL_MOVE case.                                                      *)
(***************************************************************************)
EXTENDS Integers, FiniteSets, Sequences, TLC

VARIABLES myPlayer, field, doneSteps, currentPlayer, lastType, io

vars == <<myPlayer, field, doneSteps, currentPlayer, lastType, io>>

(***************************************************************************)
(* Program constants.                                                      *)
(***************************************************************************)
MAX_STEPS == 300
FIELD_WIDTH == 12
FIELD_HEIGHT == 9

\* enum Entity::EntityType
CLOWN == 0
STRONGMAN == 2
ACROBAT == 4
MAGICIAN == 5
TRAINER == 6
NONE_TYPE == -1

\* enum Field::MoveType
ILLEGAL_MOVE == 0
NO_MOVE == 1
BASE_MOVE == 2
DOUBLE_MOVE == 3
SWAP == 4
PUSH == 5

\* solution constants: the weights of stateScore
SCORE_FOR_CAPTURED_HOUSE == 1000
SCORE_FOR_LOST_HOUSE == -150
SCORE_FOR_UNINHABITED_FRIEND_CLOWN == -100
SCORE_FOR_BLOCKED_FRIEND_CLOWN == -100
SCORE_FOR_UNINHABITED_ENEMY_CLOWN == 1000
SCORE_FOR_BLOCKED_ENEMY_CLOWN == 10
SCORE_FOR_UNINHABITED_FRIEND_STRONGMAN == -50
SCORE_FOR_BLOCKED_FRIEND_STRONGMAN == -150
SCORE_FOR_UNINHABITED_ENEMY_STRONGMAN == 100
SCORE_FOR_BLOCKED_ENEMY_STRONGMAN == 25
SCORE_FOR_UNINHABITED_FRIEND_ACROBAT == -20
SCORE_FOR_BLOCKED_FRIEND_ACROBAT == -300
SCORE_FOR_UNINHABITED_ENEMY_ACROBAT == 50
SCORE_FOR_BLOCKED_ENEMY_ACROBAT == 20
SCORE_FOR_UNINHABITED_FRIEND_MAGICIAN == -20
SCORE_FOR_BLOCKED_FRIEND_MAGICIAN == -500
SCORE_FOR_UNINHABITED_ENEMY_MAGICIAN == -10
SCORE_FOR_BLOCKED_ENEMY_MAGICIAN == 40
SCORE_FOR_UNINHABITED_FRIEND_TRAINER == -SCORE_FOR_CAPTURED_HOUSE
SCORE_FOR_UNINHABITED_ENEMY_TRAINER == -10
SCORE_DISTANCE_TO_END_MULTIPLIER == 1
SCORE_DISTANCE_TO_HOUSE_MULTIPLIER == 2

\* chooseBestMoveRecursive: the margin of the pruning
PRUNE_MARGIN == 50

\* doMove: the node budget under the logarithm
NODE_BUDGET == 200

(***************************************************************************)
(* Bounds of the model.                                                    *)
(***************************************************************************)
\* number of moves applied in one explored run
MaxSteps == 2
\* largest Chebyshev length of an input move onto an empty cell
MaxDist == 2
\* the search of the agent is examined in the states with fewer applied moves
SearchSteps == 2
\* largest depth for which the result of the search is examined
SearchDepth == 1
\* largest number of candidate moves for which the depth is examined
MaxMoves == 199

(***************************************************************************)
(* Cells, moves, entities.                                                 *)
(***************************************************************************)
Abs(x) == IF x < 0 THEN -x ELSE x

Cell(row, col) == [row |-> row, col |-> col]

isInFieldBounds(cell) ==
    cell.row >= 0 /\ cell.row < FIELD_HEIGHT /\ cell.col >= 0 /\ cell.col < FIELD_WIDTH

NONE_CELL == [row |-> -1, col |-> 25]

Move(from, to) == [from |-> from, to |-> to]

NONE_MOVE == Move(NONE_CELL, NONE_CELL)

idOf(ownerId, type, isSecond) == (ownerId * 8) + type + (IF isSecond THEN 1 ELSE 0)

Entity(ownerId, type, isSecond) ==
    [id |-> idOf(ownerId, type, isSecond), ownerId |-> ownerId, type |-> type]

NONE_ENTITY == Entity(-1, NONE_TYPE, FALSE)

\* the cells of the grid
FieldCells == {Cell(r, c) : r \in 0..(FIELD_HEIGHT - 1), c \in 0..(FIELD_WIDTH - 1)}

\* the ids inserted into activeEntities by operator>>(State)
EntityIds == {i : i \in 0..6} \cup {i + 8 : i \in 0..6}

(***************************************************************************)
(* Field: the grid, the position index, the free houses, the active ids.   *)
(***************************************************************************)
\* Field::set(cell, entity)
set(F, cell, entity) ==
    [F EXCEPT !.field = [@ EXCEPT ![cell] = [@ EXCEPT !.entity = entity]],
              !.positions = [id \in (DOMAIN @) \cup {entity.id} |->
                                IF id = entity.id THEN cell ELSE @[id]]]

\* Field::clear(cell)
clear(F, cell) ==
    [F EXCEPT !.field = [@ EXCEPT ![cell] = [@ EXCEPT !.entity = NONE_ENTITY]]]

\* isBlockedByTrainer with < in place of <=
isBlockedByTrainerStrict(cell, trainerCell) ==
    LET dstRow == Abs(cell.row - trainerCell.row)
        dstCol == Abs(cell.col - trainerCell.col)
    IN  dstRow < 1 /\ dstCol < 1

\* Field::isBlockedByTrainer
isBlockedByTrainer(cell, trainerCell) ==
    LET dstRow == Abs(cell.row - trainerCell.row)
        dstCol == Abs(cell.col - trainerCell.col)
    IN  dstRow <= 1 /\ dstCol <= 1

\* Field::checkMove, the STRONGMAN case of the switch
strongmanCase(F, nextCell, difRow, difCol, enemyTrainerActive, enemyTrainerCell) ==
    IF /\ isInFieldBounds(nextCell)
       /\ F.field[nextCell].entity.type = NONE_TYPE
       /\ (~F.field[nextCell].hasHouse \/ (difCol = 0 \/ difRow = 0))
       /\ (~enemyTrainerActive \/ ~isBlockedByTrainer(nextCell, enemyTrainerCell))
    THEN PUSH
    ELSE ILLEGAL_MOVE

\* the ACROBAT case that lets the Acrobat jump only over an empty cell
acrobatCaseOverEmpty(F, move, difRow, difCol, targetIsHouse) ==
    IF /\ F.field[move.to].entity.type = NONE_TYPE
       /\ F.field[Cell(move.from.row + difRow \div 2,
                       move.from.col + difCol \div 2)].entity.type = NONE_TYPE
    THEN IF (difCol = 0 \/ difRow = 0) /\ Abs(difCol) + Abs(difRow) = 2
         THEN DOUBLE_MOVE
         ELSE IF ~targetIsHouse /\ Abs(difRow) = 2 /\ Abs(difCol) = 2
              THEN DOUBLE_MOVE
              ELSE ILLEGAL_MOVE
    ELSE ILLEGAL_MOVE

\* Field::checkMove, the ACROBAT case of the switch
acrobatCase(F, move, difRow, difCol, targetIsHouse) ==
    IF F.field[move.to].entity.type = NONE_TYPE
    THEN IF (difCol = 0 \/ difRow = 0) /\ Abs(difCol) + Abs(difRow) = 2
         THEN DOUBLE_MOVE
         ELSE IF ~targetIsHouse /\ Abs(difRow) = 2 /\ Abs(difCol) = 2
              THEN DOUBLE_MOVE
              ELSE ILLEGAL_MOVE
    ELSE ILLEGAL_MOVE

\* the MAGICIAN case without the exclusion of the opponent's Trainer and Magician
magicianCaseAnyTarget(targetEntity, player) ==
    IF targetEntity.type # NONE_TYPE THEN SWAP ELSE ILLEGAL_MOVE

\* Field::checkMove, the MAGICIAN case of the switch
magicianCase(targetEntity, player) ==
    IF /\ targetEntity.type # NONE_TYPE
       /\ (\/ targetEntity.ownerId = player
           \/ (targetEntity.type # TRAINER /\ targetEntity.type # MAGICIAN))
    THEN SWAP
    ELSE ILLEGAL_MOVE

\* Field::checkMove, the part after the trainer check: base move, then the switch
patternOf(F, move, entityType, player, enemyTrainerActive, enemyTrainerCell) ==
    LET targetIsHouse == F.field[move.to].hasHouse
        difRow == move.to.row - move.from.row
        difCol == move.to.col - move.from.col
        targetEntity == F.field[move.to].entity
        nextCell == Cell(move.to.row + difRow, move.to.col + difCol)
    IN  IF /\ F.field[move.to].entity.type = NONE_TYPE
           /\ IF targetIsHouse
              THEN Abs(difCol) + Abs(difRow) = 1
              ELSE Abs(difRow) <= 1 /\ Abs(difCol) <= 1
        THEN BASE_MOVE
        ELSE IF entityType = ACROBAT
             THEN acrobatCase(F, move, difRow, difCol, targetIsHouse)
        ELSE IF entityType = STRONGMAN
             THEN strongmanCase(F, nextCell, difRow, difCol,
                                enemyTrainerActive, enemyTrainerCell)
        ELSE IF entityType = MAGICIAN
             THEN magicianCase(targetEntity, player)
        ELSE ILLEGAL_MOVE

\* the trainer check that tests the from-cell only
trainerCheckFromOnly(F, move, entityType, player) ==
    LET enemy == (player + 1) % 2
        enemyTrainerCell == F.positions[idOf(enemy, TRAINER, FALSE)]
        enemyTrainerActive == idOf(enemy, TRAINER, FALSE) \in F.activeEntities
    IN  IF enemyTrainerActive /\ isBlockedByTrainer(move.from, enemyTrainerCell)
        THEN ILLEGAL_MOVE
        ELSE patternOf(F, move, entityType, player, enemyTrainerActive, enemyTrainerCell)

\* the trainer check that does not ask whether the Trainer is active
trainerCheckHoused(F, move, entityType, player) ==
    LET enemy == (player + 1) % 2
        enemyTrainerCell == F.positions[idOf(enemy, TRAINER, FALSE)]
    IN  IF \/ isBlockedByTrainer(move.from, enemyTrainerCell)
           \/ isBlockedByTrainer(move.to, enemyTrainerCell)
        THEN ILLEGAL_MOVE
        ELSE patternOf(F, move, entityType, player, TRUE, enemyTrainerCell)

\* Field::checkMove, the trainer check
trainerCheck(F, move, entityType, player) ==
    LET enemy == (player + 1) % 2
        enemyTrainerCell == F.positions[idOf(enemy, TRAINER, FALSE)]
        enemyTrainerActive == idOf(enemy, TRAINER, FALSE) \in F.activeEntities
    IN  IF /\ enemyTrainerActive
           /\ (\/ isBlockedByTrainer(move.from, enemyTrainerCell)
               \/ isBlockedByTrainer(move.to, enemyTrainerCell))
        THEN ILLEGAL_MOVE
        ELSE patternOf(F, move, entityType, player, enemyTrainerActive, enemyTrainerCell)

\* the house and occupancy tests of checkMove without the test of an occupied
\* target house
houseCheckNoTarget(F, move) ==
    IF F.field[move.from].hasHouse THEN ILLEGAL_MOVE
    ELSE IF F.field[move.from].entity.type = NONE_TYPE THEN ILLEGAL_MOVE
    ELSE trainerCheck(F, move, F.field[move.from].entity.type,
                      F.field[move.from].entity.ownerId)

\* Field::checkMove, the house and occupancy tests
houseCheck(F, move) ==
    IF F.field[move.from].hasHouse THEN ILLEGAL_MOVE
    ELSE IF F.field[move.to].hasHouse /\ F.field[move.to].entity.type # NONE_TYPE
         THEN ILLEGAL_MOVE
    ELSE IF F.field[move.from].entity.type = NONE_TYPE THEN ILLEGAL_MOVE
    ELSE trainerCheck(F, move, F.field[move.from].entity.type,
                      F.field[move.from].entity.ownerId)

\* checkMove with the test from == to placed before the test of NONE_MOVE
checkMoveStandingFirst(F, move) ==
    IF move.from = move.to THEN ILLEGAL_MOVE
    ELSE IF move = NONE_MOVE THEN NO_MOVE
    ELSE IF ~isInFieldBounds(move.from) \/ ~isInFieldBounds(move.to) THEN ILLEGAL_MOVE
    ELSE houseCheck(F, move)

\* Field::checkMove
checkMove(F, move) ==
    IF move = NONE_MOVE THEN NO_MOVE
    ELSE IF move.from = move.to THEN ILLEGAL_MOVE
    ELSE IF ~isInFieldBounds(move.from) \/ ~isInFieldBounds(move.to) THEN ILLEGAL_MOVE
    ELSE houseCheck(F, move)

\* baseOrDoubleMove with the free houses recomputed from the grid (every house
\* whose cell is empty) instead of erasing the entered house
baseOrDoubleMoveRecount(F, move) ==
    LET movingEntity == F.field[move.from].entity
        G == set(clear(F, move.from), move.to, movingEntity)
        H == IF G.field[move.to].hasHouse
             THEN [G EXCEPT !.activeEntities = @ \ {movingEntity.id}]
             ELSE G
    IN  [H EXCEPT !.freeHouses = {c \in H.houses : H.field[c].entity.type = NONE_TYPE}]

\* Field::baseOrDoubleMove
baseOrDoubleMove(F, move) ==
    LET movingEntity == F.field[move.from].entity
        G == set(clear(F, move.from), move.to, movingEntity)
    IN  IF G.field[move.to].hasHouse
        THEN [G EXCEPT !.activeEntities = @ \ {movingEntity.id},
                       !.freeHouses = @ \ {move.to}]
        ELSE G

\* swapMove without the second call of set: the assistant is not put on from
swapMoveNoAssistant(F, move) ==
    LET magician == F.field[move.from].entity
    IN  set(F, move.to, magician)

\* swapMove that also takes the assistant out of the active entities
swapMoveRetiring(F, move) ==
    LET magician == F.field[move.from].entity
        assistant == F.field[move.to].entity
        G == set(set(F, move.to, magician), move.from, assistant)
    IN  [G EXCEPT !.activeEntities = @ \ {assistant.id}]

\* Field::swapMove
swapMove(F, move) ==
    LET magician == F.field[move.from].entity
        assistant == F.field[move.to].entity
    IN  set(set(F, move.to, magician), move.from, assistant)

\* pushMove without clear(move.from)
pushMoveNoClear(F, move) ==
    LET strongman == F.field[move.from].entity
        pushedEntity == F.field[move.to].entity
        nextCell == Cell(2 * move.to.row - move.from.row, 2 * move.to.col - move.from.col)
        G == set(set(F, move.to, strongman), nextCell, pushedEntity)
    IN  IF G.field[nextCell].hasHouse
        THEN [G EXCEPT !.activeEntities = @ \ {pushedEntity.id},
                       !.freeHouses = @ \ {nextCell}]
        ELSE G

\* Field::pushMove
pushMove(F, move) ==
    LET strongman == F.field[move.from].entity
        pushedEntity == F.field[move.to].entity
        nextCell == Cell(2 * move.to.row - move.from.row, 2 * move.to.col - move.from.col)
        G == set(set(clear(F, move.from), move.to, strongman), nextCell, pushedEntity)
    IN  IF G.field[nextCell].hasHouse
        THEN [G EXCEPT !.activeEntities = @ \ {pushedEntity.id},
                       !.freeHouses = @ \ {nextCell}]
        ELSE G

\* Field::doMove: the switch over checkMove(move)
FieldDoMove(F, move) ==
    LET t == checkMove(F, move)
    IN  IF t = ILLEGAL_MOVE THEN F
        ELSE IF t = NO_MOVE THEN F
        ELSE IF t = BASE_MOVE \/ t = DOUBLE_MOVE THEN baseOrDoubleMove(F, move)
        ELSE IF t = SWAP THEN swapMove(F, move)
        ELSE pushMove(F, move)

(***************************************************************************)
(* Construction: operator>>(State) and initializeEntities.                 *)
(***************************************************************************)
rowForPlayer(col, player) == IF player = 0 THEN col ELSE FIELD_HEIGHT - 1 - col

initializeEntities(F, player) ==
    LET F1 == set(F, Cell(rowForPlayer(0, player), 0), Entity(player, ACROBAT, FALSE))
        F2 == set(F1, Cell(rowForPlayer(1, player), 0), Entity(player, CLOWN, FALSE))
        F3 == set(F2, Cell(rowForPlayer(0, player), 1), Entity(player, CLOWN, TRUE))
        F4 == set(F3, Cell(rowForPlayer(1, player), 1), Entity(player, MAGICIAN, FALSE))
        F5 == set(F4, Cell(rowForPlayer(2, player), 0), Entity(player, STRONGMAN, FALSE))
        F6 == set(F5, Cell(rowForPlayer(0, player), 2), Entity(player, STRONGMAN, TRUE))
    IN  set(F6, Cell(rowForPlayer(3, player), 0), Entity(player, TRAINER, FALSE))

\* the Field read by operator>>(State) from the house cells of the setup
readField(houseCells) ==
    LET empty == [houses |-> houseCells,
                  field |-> [c \in FieldCells |->
                                [hasHouse |-> c \in houseCells, entity |-> NONE_ENTITY]],
                  positions |-> << >>,
                  freeHouses |-> houseCells,
                  activeEntities |-> EntityIds]
    IN  initializeEntities(initializeEntities(empty, 0), 1)

\* house lists of the setup (13 cells each, none under a start cell)
HouseLayouts ==
    { { Cell(3,1), Cell(1,3), Cell(0,3), Cell(2,2), Cell(7,2), Cell(5,1), Cell(4,5),
        Cell(2,7), Cell(6,8), Cell(1,10), Cell(7,10), Cell(4,11), Cell(8,6) },
      { Cell(4,3), Cell(1,4), Cell(7,4), Cell(3,5), Cell(5,6), Cell(0,7), Cell(8,7),
        Cell(2,8), Cell(6,9), Cell(4,9), Cell(1,11), Cell(7,11), Cell(4,2) } }

(***************************************************************************)
(* Inputs: the moves a turn can carry.                                     *)
(***************************************************************************)
\* cells a move token can name: the grid and the ring around it
InputCells == {Cell(r, c) : r \in -1..FIELD_HEIGHT, c \in -1..FIELD_WIDTH}

\* the cells within Chebyshev distance MaxDist of a cell
Near(cell) ==
    {Cell(cell.row + dr, cell.col + dc) : dr \in -MaxDist..MaxDist, dc \in -MaxDist..MaxDist}

OccupiedCells(F) == {c \in FieldCells : F.field[c].entity.type # NONE_TYPE}

\* the cells a move token can name as its source
Sources == InputCells \cup {NONE_CELL}

\* the cells a move token from a source names as its target: the cells near
\* the source, any occupied cell, and the sentinel
Targets(occupied, from) == Near(from) \cup occupied \cup {NONE_CELL}

\* every move classified ILLEGAL_MOVE has the same effect on the state, so the
\* inputs are taken up to that: every other move, and one ILLEGAL_MOVE move
IllegalProbe == Move(Cell(0, 0), Cell(0, 0))

(***************************************************************************)
(* Game I/O: a string is the sequence of the codes of its characters.      *)
(***************************************************************************)
\* the characters 'A', '1' and '-'
CHAR_A == 65
CHAR_1 == 49
CHAR_DASH == 45

\* operator<<(ostream&, Cell) with the letter taken from the row
writeCellRowLetter(cell) == <<(cell.row + CHAR_A) % 256, (cell.col + CHAR_1) % 256>>

\* operator<<(ostream&, Cell): (char) (cell.col + 'A'), (char) (cell.row + '1')
writeCell(cell) == <<(cell.col + CHAR_A) % 256, (cell.row + CHAR_1) % 256>>

\* operator>>(istream&, Cell&): col from str[0], row from str[1]
readCell(str) == Cell(str[2] - CHAR_1, str[1] - CHAR_A)

\* operator<<(ostream&, Move): from, "-", to
writeMove(move) == writeCell(move.from) \o <<CHAR_DASH>> \o writeCell(move.to)

\* operator>>(istream&, Move&): from out of str[0], str[1], to out of str[3], str[4]
readMove(str) == Move(Cell(str[2] - CHAR_1, str[1] - CHAR_A),
                      Cell(str[5] - CHAR_1, str[4] - CHAR_A))

(***************************************************************************)
(* The game state and the main loop.                                       *)
(***************************************************************************)
Init ==
    /\ (myPlayer = 1 \/ myPlayer = 0)
    /\ \E h \in HouseLayouts : field = readField(h)
    /\ doneSteps = 0
    /\ currentPlayer = 0
    /\ lastType = NO_MOVE
    /\ io = << >>

\* main: the loop condition
Running == doneSteps < MAX_STEPS /\ field.freeHouses # {}

\* State::doMove that leaves the side to move as it is
StateDoMoveKeepSide(move) ==
    /\ lastType' = checkMove(field, move)
    /\ field' = FieldDoMove(field, move)
    /\ currentPlayer' = currentPlayer
    /\ doneSteps' = doneSteps + 1
    /\ UNCHANGED myPlayer

\* State::doMove
StateDoMove(move) ==
    /\ lastType' = checkMove(field, move)
    /\ field' = FieldDoMove(field, move)
    /\ currentPlayer' = (currentPlayer + 1) % 2
    /\ doneSteps' = doneSteps + 1
    /\ UNCHANGED myPlayer

\* mainLoop, the opponent's turn: a token is read from cin, turned into a
\* move and the move is applied; the tokens are those that name two cells in
\* the notation of the game; io is the sequence of the tokens read ("cin")
\* and written ("cout") so far, each with the move it stands for
ReadMove ==
    /\ Running
    /\ doneSteps < MaxSteps
    /\ currentPlayer # myPlayer
    /\ LET occupied == OccupiedCells(field)
       IN  \E from \in Sources : \E to \in Targets(occupied, from) :
              LET str == writeMove(Move(from, to))
                  move == readMove(str)
              IN  /\ \/ checkMove(field, move) # ILLEGAL_MOVE
                     \/ move = IllegalProbe
                  /\ StateDoMove(move)
                  /\ io' = Append(io, [op |-> "cin", str |-> str, move |-> move])

\* mainLoop, the agent's turn: the move chosen by doMove(state) is applied
\* and written to cout; doMove returns a candidate of allAvailableMoves or a
\* shortcut move, each of which checkMove classifies non-Illegal
AgentMove ==
    /\ Running
    /\ doneSteps < MaxSteps
    /\ currentPlayer = myPlayer
    /\ LET occupied == OccupiedCells(field)
       IN  \E from \in Sources : \E to \in Targets(occupied, from) :
              LET move == Move(from, to)
              IN  /\ checkMove(field, move) # ILLEGAL_MOVE
                  /\ StateDoMove(move)
                  /\ io' = Append(io, [op |-> "cout", str |-> writeMove(move),
                                       move |-> move])

Next == ReadMove \/ AgentMove

Spec == Init /\ [][Next]_vars

(***************************************************************************)
(* The same game for a setup that names a start cell as a house:           *)
(* operator>>(State) marks the 13 cells it reads as houses and puts them   *)
(* into freeHouses, whatever the cells are, and then places the entities.  *)
(***************************************************************************)
\* a house list with a house on B1 (row 0, col 1), the start cell of player
\* 0's second Clown, next to the start cell of player 0's Acrobat
SetupLayouts ==
    { { Cell(0,1), Cell(1,3), Cell(0,3), Cell(2,2), Cell(7,2), Cell(5,1), Cell(4,5),
        Cell(2,7), Cell(6,8), Cell(1,10), Cell(7,10), Cell(4,11), Cell(8,6) } }

SetupInit ==
    /\ (myPlayer = 1 \/ myPlayer = 0)
    /\ \E h \in SetupLayouts : field = readField(h)
    /\ doneSteps = 0
    /\ currentPlayer = 0
    /\ lastType = NO_MOVE
    /\ io = << >>

SetupSpec == SetupInit /\ [][Next]_vars

\* the house list of a setup whose 13 tokens all name D2 (row 1, col 3):
\* operator>> inserts the cell into the sets houses and freeHouses once
RepeatedLayouts == { { Cell(1,3) } }

RepeatedInit ==
    /\ (myPlayer = 1 \/ myPlayer = 0)
    /\ \E h \in RepeatedLayouts : field = readField(h)
    /\ doneSteps = 0
    /\ currentPlayer = 0
    /\ lastType = NO_MOVE
    /\ io = << >>

RepeatedSpec == RepeatedInit /\ [][Next]_vars

\* the house list of a setup that names the seven start cells of player 0
\* among its 13 houses
StartCellLayouts ==
    { { Cell(0,0), Cell(1,0), Cell(0,1), Cell(1,1), Cell(2,0), Cell(0,2), Cell(3,0),
        Cell(7,2), Cell(5,1), Cell(4,5), Cell(2,7), Cell(6,8), Cell(1,10) } }

StartCellInit ==
    /\ (myPlayer = 0 \/ myPlayer = 1)
    /\ \E h \in StartCellLayouts : field = readField(h)
    /\ doneSteps = 0
    /\ currentPlayer = 0
    /\ lastType = NO_MOVE
    /\ io = << >>

StartCellSpec == StartCellInit /\ [][Next]_vars

(***************************************************************************)
(* The move enumerator: addMoveIfLegal and allAvailableMoves.  A State is  *)
(* the record of myPlayer, field, doneSteps and currentPlayer.             *)
(***************************************************************************)
\* the State the main loop holds
state ==
    [myPlayer |-> myPlayer, field |-> field,
     doneSteps |-> doneSteps, currentPlayer |-> currentPlayer]

\* Entity::typeById: id & 0b111, with no case for 4
typeById(id) ==
    LET low == id % 8
    IN  IF low = 0 \/ low = 1 THEN CLOWN
        ELSE IF low = 2 \/ low = 3 THEN STRONGMAN
        ELSE IF low = 5 THEN MAGICIAN
        ELSE IF low = 6 THEN TRAINER
        ELSE NONE_TYPE

\* Entity::Entity(id): the owner is id >> 3
EntityById(id) == [id |-> id, ownerId |-> id \div 8, type |-> typeById(id)]

\* addMoveIfLegal
addMoveIfLegal(S, out, move, addSwaps) ==
    LET t == checkMove(S.field, move)
    IN  IF t = BASE_MOVE \/ t = PUSH \/ t = DOUBLE_MOVE \/ t = NO_MOVE
        THEN Append(out, move)
        ELSE IF t = SWAP /\ addSwaps THEN Append(out, move)
        ELSE out

\* the pairs (dRow, dCol) in the order of the two nested loops
NeighbourOffsets ==
    << <<-1, -1>>, <<-1, 0>>, <<-1, 1>>,
       <<0, -1>>,  <<0, 0>>,  <<0, 1>>,
       <<1, -1>>,  <<1, 0>>,  <<1, 1>> >>

\* allAvailableMoves: what the two nested loops over dRow and dCol add to the
\* vector from the k-th pair on (addMoveIfLegal only appends, so the vector
\* is the concatenation of what the calls add)
RECURSIVE scanNeighbours(_, _, _)
scanNeighbours(S, position, k) ==
    IF k > Len(NeighbourOffsets) THEN << >>
    ELSE LET d == NeighbourOffsets[k]
             move == Move(position, Cell(position.row + d[1], position.col + d[2]))
         IN  addMoveIfLegal(S, << >>, move, FALSE) \o scanNeighbours(S, position, k + 1)

\* the general scan that skips no entity of the other player
RECURSIVE generalScanAnyOwner(_, _)
generalScanAnyOwner(S, id) ==
    IF id > 14 THEN << >>
    ELSE IF id \notin S.field.activeEntities
         THEN generalScanAnyOwner(S, id + 1)
         ELSE scanNeighbours(S, S.field.positions[id], 1) \o generalScanAnyOwner(S, id + 1)

\* allAvailableMoves, the loop over activeEntities (base move, push): what it
\* adds from the given id on; the container is unordered, the ids are taken
\* in ascending order
RECURSIVE generalScan(_, _)
generalScan(S, id) ==
    IF id > 14 THEN << >>
    ELSE IF id \notin S.field.activeEntities \/ EntityById(id).ownerId # S.currentPlayer
         THEN generalScan(S, id + 1)
         ELSE scanNeighbours(S, S.field.positions[id], 1) \o generalScan(S, id + 1)

\* allAvailableMoves, the loop over the assistants of the Magician: what it
\* adds from the given id on; addSwaps is left at its default
RECURSIVE magicianScan(_, _, _)
magicianScan(S, position, id) ==
    IF id > 14 THEN << >>
    ELSE IF id \notin S.field.activeEntities
         THEN magicianScan(S, position, id + 1)
         ELSE addMoveIfLegal(S, << >>, Move(position, S.field.positions[id]), FALSE)
                 \o magicianScan(S, position, id + 1)

\* allAvailableMoves
allAvailableMoves(S) ==
    generalScan(S, 0)
       \o scanNeighbours(S, S.field.positions[idOf(S.currentPlayer, ACROBAT, FALSE)], 1)
       \o magicianScan(S, S.field.positions[idOf(S.currentPlayer, MAGICIAN, FALSE)], 0)
       \o <<NONE_MOVE>>

(***************************************************************************)
(* The evaluator: distanceToNearestHouse and stateScore.                   *)
(***************************************************************************)
\* the least element of a non-empty set of integers
Least(values) == CHOOSE v \in values : \A w \in values : v <= w

\* distanceToNearestHouse by the larger of the two coordinate differences
distanceToNearestHouseChebyshev(S, cell) ==
    LET ds == {(IF Abs(cell.row - house.row) > Abs(cell.col - house.col)
                THEN Abs(cell.row - house.row) ELSE Abs(cell.col - house.col)) :
                  house \in S.field.freeHouses}
    IN  IF ds = {} THEN 0 ELSE Least(ds)

\* distanceToNearestHouse(state, cell)
distanceToNearestHouse(S, cell) ==
    LET ds == {Abs(cell.row - house.row) + Abs(cell.col - house.col) :
                  house \in S.field.freeHouses}
        dst == IF ds = {} THEN 1000
               ELSE IF Least(ds) < 1000 THEN Least(ds) ELSE 1000
    IN  IF dst = 1000 THEN 0 ELSE dst

\* stateScore: the terms of the switch over entity.type for one entity;
\* blockedByEnemy and blockedByFriend are the two macros applied to its cell
typeScore(type, my, blockedByEnemy, blockedByFriend) ==
    IF type = CLOWN
    THEN IF my
         THEN SCORE_FOR_UNINHABITED_FRIEND_CLOWN
                 + (IF blockedByEnemy THEN SCORE_FOR_BLOCKED_FRIEND_CLOWN ELSE 0)
         ELSE SCORE_FOR_UNINHABITED_ENEMY_CLOWN
                 + (IF blockedByFriend THEN SCORE_FOR_BLOCKED_ENEMY_CLOWN ELSE 0)
    ELSE IF type = STRONGMAN
    THEN IF my
         THEN SCORE_FOR_UNINHABITED_FRIEND_STRONGMAN
                 + (IF blockedByEnemy THEN SCORE_FOR_BLOCKED_FRIEND_STRONGMAN ELSE 0)
         ELSE SCORE_FOR_UNINHABITED_ENEMY_STRONGMAN
                 + (IF blockedByFriend THEN SCORE_FOR_BLOCKED_ENEMY_STRONGMAN ELSE 0)
    ELSE IF type = ACROBAT
    THEN IF my
         THEN SCORE_FOR_UNINHABITED_FRIEND_ACROBAT
                 + (IF blockedByEnemy THEN SCORE_FOR_BLOCKED_FRIEND_ACROBAT ELSE 0)
         ELSE SCORE_FOR_UNINHABITED_ENEMY_ACROBAT
                 + (IF blockedByFriend THEN SCORE_FOR_BLOCKED_ENEMY_ACROBAT ELSE 0)
    ELSE IF type = MAGICIAN
    THEN IF my
         THEN SCORE_FOR_UNINHABITED_FRIEND_MAGICIAN
                 + (IF blockedByEnemy THEN SCORE_FOR_BLOCKED_FRIEND_MAGICIAN ELSE 0)
         ELSE SCORE_FOR_UNINHABITED_ENEMY_MAGICIAN
                 + (IF blockedByFriend THEN SCORE_FOR_BLOCKED_ENEMY_MAGICIAN ELSE 0)
    ELSE IF type = TRAINER
    THEN IF my
         THEN -SCORE_FOR_UNINHABITED_FRIEND_TRAINER
         ELSE -SCORE_FOR_UNINHABITED_ENEMY_TRAINER
    ELSE 0

\* the pass of the loop without the continue of the house branch: the
\* distance terms are added for an entity on a house as well
entityScoreNoContinue(S, entityId) ==
    LET player == S.myPlayer
        enemy == (player + 1) % 2
        friendTrainerCell == S.field.positions[idOf(player, TRAINER, FALSE)]
        enemyTrainerCell == S.field.positions[idOf(enemy, TRAINER, FALSE)]
        friendTrainerActive == idOf(player, TRAINER, FALSE) \in S.field.activeEntities
        enemyTrainerActive == idOf(enemy, TRAINER, FALSE) \in S.field.activeEntities
        entity == EntityById(entityId)
        my == entity.ownerId = player
        cell == S.field.positions[entityId]
        blockedByFriend == /\ friendTrainerActive
                           /\ isBlockedByTrainer(friendTrainerCell, cell)
                           /\ ~S.field.field[cell].hasHouse
        blockedByEnemy == /\ enemyTrainerActive
                          /\ isBlockedByTrainer(enemyTrainerCell, cell)
                          /\ ~S.field.field[cell].hasHouse
        toEnd == SCORE_DISTANCE_TO_END_MULTIPLIER * (11 - cell.col)
        toHouse == SCORE_DISTANCE_TO_HOUSE_MULTIPLIER * distanceToNearestHouse(S, cell)
    IN  (IF S.field.field[cell].hasHouse
         THEN IF my THEN SCORE_FOR_CAPTURED_HOUSE ELSE SCORE_FOR_LOST_HOUSE
         ELSE typeScore(entity.type, my, blockedByEnemy, blockedByFriend))
            + (IF my THEN -toEnd ELSE toEnd)
            + (IF my THEN -toHouse ELSE toHouse)

\* stateScore: what one pass of the loop over entityId adds to score
entityScore(S, entityId) ==
    LET player == S.myPlayer
        enemy == (player + 1) % 2
        friendTrainerCell == S.field.positions[idOf(player, TRAINER, FALSE)]
        enemyTrainerCell == S.field.positions[idOf(enemy, TRAINER, FALSE)]
        friendTrainerActive == idOf(player, TRAINER, FALSE) \in S.field.activeEntities
        enemyTrainerActive == idOf(enemy, TRAINER, FALSE) \in S.field.activeEntities
        entity == EntityById(entityId)
        my == entity.ownerId = player
        cell == S.field.positions[entityId]
        blockedByFriend == /\ friendTrainerActive
                           /\ isBlockedByTrainer(friendTrainerCell, cell)
                           /\ ~S.field.field[cell].hasHouse
        blockedByEnemy == /\ enemyTrainerActive
                          /\ isBlockedByTrainer(enemyTrainerCell, cell)
                          /\ ~S.field.field[cell].hasHouse
        toEnd == SCORE_DISTANCE_TO_END_MULTIPLIER * (11 - cell.col)
        toHouse == SCORE_DISTANCE_TO_HOUSE_MULTIPLIER * distanceToNearestHouse(S, cell)
    IN  IF S.field.field[cell].hasHouse
        THEN IF my THEN SCORE_FOR_CAPTURED_HOUSE ELSE SCORE_FOR_LOST_HOUSE
        ELSE typeScore(entity.type, my, blockedByEnemy, blockedByFriend)
                + (IF my THEN -toEnd ELSE toEnd)
                + (IF my THEN -toHouse ELSE toHouse)

\* stateScore: the loop over entityId from the given id on, id 7 skipped
RECURSIVE scoreFrom(_, _)
scoreFrom(S, entityId) ==
    IF entityId >= 15 THEN 0
    ELSE IF entityId = 7 THEN scoreFrom(S, entityId + 1)
    ELSE entityScore(S, entityId) + scoreFrom(S, entityId + 1)

\* stateScore
stateScore(S) == scoreFrom(S, 0)

(***************************************************************************)
(* The search driver: chooseBestMoveRecursive and the depth of doMove.     *)
(***************************************************************************)
\* State::doMove on a copy of the state
doMoveOn(S, move) ==
    [S EXCEPT !.field = FieldDoMove(S.field, move),
              !.currentPlayer = (S.currentPlayer + 1) % 2,
              !.doneSteps = S.doneSteps + 1]

\* chooseBestMoveRecursive: the first loop, every candidate with the score of
\* the state after it (the empty sequence in front makes the vector an
\* explicit tuple)
scoreMoves(S, allMoves) ==
    << >> \o [i \in 1..Len(allMoves) |->
                 [first |-> stateScore(doMoveOn(S, allMoves[i])), second |-> allMoves[i]]]

\* sort by the first component, ascending; the order std::sort leaves among
\* equal scores is unspecified, here they keep their order
sortByScore(pairs) ==
    LET n == Len(pairs)
        rank == << >> \o [i \in 1..n |->
                    Cardinality({j \in 1..n : \/ pairs[j].first < pairs[i].first
                                              \/ (pairs[j].first = pairs[i].first /\ j < i)}) + 1]
    IN  << >> \o [k \in 1..n |-> pairs[CHOOSE i \in 1..n : rank[i] = k]]

\* eraseFront that erases every candidate below the maximum score
RECURSIVE eraseFrontBelowMax(_, _)
eraseFrontBelowMax(pairs, minScore) ==
    IF pairs[1].first < minScore + PRUNE_MARGIN
    THEN eraseFrontBelowMax(Tail(pairs), minScore)
    ELSE pairs

\* while (front().first < minScore) erase(begin())
RECURSIVE eraseFront(_, _)
eraseFront(pairs, minScore) ==
    IF pairs[1].first < minScore THEN eraseFront(Tail(pairs), minScore) ELSE pairs

\* while (back().first > maxScore) pop_back()
RECURSIVE popBack(_, _)
popBack(pairs, maxScore) ==
    IF pairs[Len(pairs)].first > maxScore
    THEN popBack(SubSeq(pairs, 1, Len(pairs) - 1), maxScore)
    ELSE pairs

\* chooseBestMoveRecursive: the pruning of the sorted candidates
prune(S, sorted) ==
    IF S.currentPlayer = S.myPlayer
    THEN eraseFront(sorted, sorted[Len(sorted)].first - PRUNE_MARGIN)
    ELSE popBack(sorted, sorted[Len(sorted)].first + PRUNE_MARGIN)

\* chooseBestMoveRecursive: the candidates after the first loop, the sort and
\* the pruning
survivors(S) == prune(S, sortByScore(scoreMoves(S, allAvailableMoves(S))))

\* chooseBestMoveRecursive that takes front() on the agent's turn and back()
\* on the other player's
RECURSIVE chooseBestMoveRecursiveSwapped(_, _)
chooseBestMoveRecursiveSwapped(S, depth) ==
    LET kept == survivors(S)
        valued == IF depth > 0
                  THEN << >> \o [i \in 1..Len(kept) |->
                           [first |-> chooseBestMoveRecursiveSwapped(
                                          doMoveOn(S, kept[i].second), depth - 1).first,
                            second |-> kept[i].second]]
                  ELSE kept
        final == sortByScore(valued)
    IN  IF S.currentPlayer = S.myPlayer THEN final[1] ELSE final[Len(final)]

\* chooseBestMoveRecursive
RECURSIVE chooseBestMoveRecursive(_, _)
chooseBestMoveRecursive(S, depth) ==
    LET kept == survivors(S)
        valued == IF depth > 0
                  THEN << >> \o [i \in 1..Len(kept) |->
                           [first |-> chooseBestMoveRecursive(
                                          doMoveOn(S, kept[i].second), depth - 1).first,
                            second |-> kept[i].second]]
                  ELSE kept
        final == sortByScore(valued)
    IN  IF S.currentPlayer = S.myPlayer THEN final[Len(final)] ELSE final[1]

\* chooseBestMoveRecursive: the parameter state and the local tmp after
\* State tmp = state
scratchFrame(S) == [state |-> S, tmp |-> S]

\* tmp.doMove(move): the move is applied to the scratch copy
applyScratch(frame, move) == [frame EXCEPT !.tmp = doMoveOn(frame.tmp, move)]

\* the end of a pass that leaves tmp as the move made it
restoreScratchNone(frame) == frame

\* tmp = state at the end of a pass
restoreScratch(frame) == [frame EXCEPT !.tmp = frame.state]

\* a loop of chooseBestMoveRecursive over moves (tmp.doMove(move); ...;
\* tmp = state): the frame at the top of every pass, then the frame after the
\* loop
RECURSIVE scratchLoop(_, _)
scratchLoop(frame, moves) ==
    IF moves = << >>
    THEN <<frame>>
    ELSE <<frame>> \o scratchLoop(restoreScratch(applyScratch(frame, Head(moves))),
                                  Tail(moves))

\* log(x) for x in 1..200 in units of 10^-6, rounded to the nearest integer
LOG_MICRO ==
    <<
       0, 693147, 1098612, 1386294, 1609438, 1791759, 1945910, 2079442, 2197225, 2302585,
       2397895, 2484907, 2564949, 2639057, 2708050, 2772589, 2833213, 2890372, 2944439, 2995732,
       3044522, 3091042, 3135494, 3178054, 3218876, 3258097, 3295837, 3332205, 3367296, 3401197,
       3433987, 3465736, 3496508, 3526361, 3555348, 3583519, 3610918, 3637586, 3663562, 3688879,
       3713572, 3737670, 3761200, 3784190, 3806662, 3828641, 3850148, 3871201, 3891820, 3912023,
       3931826, 3951244, 3970292, 3988984, 4007333, 4025352, 4043051, 4060443, 4077537, 4094345,
       4110874, 4127134, 4143135, 4158883, 4174387, 4189655, 4204693, 4219508, 4234107, 4248495,
       4262680, 4276666, 4290459, 4304065, 4317488, 4330733, 4343805, 4356709, 4369448, 4382027,
       4394449, 4406719, 4418841, 4430817, 4442651, 4454347, 4465908, 4477337, 4488636, 4499810,
       4510860, 4521789, 4532599, 4543295, 4553877, 4564348, 4574711, 4584967, 4595120, 4605170,
       4615121, 4624973, 4634729, 4644391, 4653960, 4663439, 4672829, 4682131, 4691348, 4700480,
       4709530, 4718499, 4727388, 4736198, 4744932, 4753590, 4762174, 4770685, 4779123, 4787492,
       4795791, 4804021, 4812184, 4820282, 4828314, 4836282, 4844187, 4852030, 4859812, 4867534,
       4875197, 4882802, 4890349, 4897840, 4905275, 4912655, 4919981, 4927254, 4934474, 4941642,
       4948760, 4955827, 4962845, 4969813, 4976734, 4983607, 4990433, 4997212, 5003946, 5010635,
       5017280, 5023881, 5030438, 5036953, 5043425, 5049856, 5056246, 5062595, 5068904, 5075174,
       5081404, 5087596, 5093750, 5099866, 5105945, 5111988, 5117994, 5123964, 5129899, 5135798,
       5141664, 5147494, 5153292, 5159055, 5164786, 5170484, 5176150, 5181784, 5187386, 5192957,
       5198497, 5204007, 5209486, 5214936, 5220356, 5225747, 5231109, 5236442, 5241747, 5247024,
       5252273, 5257495, 5262690, 5267858, 5273000, 5278115, 5283204, 5288267, 5293305, 5298317 >>

\* floor with one level less
depthForLess(movesCount) == (LOG_MICRO[NODE_BUDGET] \div LOG_MICRO[movesCount]) - 1

\* doMove: depth = floor(log(200.0) / log(movesCount * 1.0)); the quotient of
\* the two logarithms is no closer than 0.0009 to an integer for any
\* movesCount in 2..199 and is 1 for 200, so the rounding of the table and of
\* the floating-point division does not change the floor
depthFor(movesCount) == LOG_MICRO[NODE_BUDGET] \div LOG_MICRO[movesCount]

\* the least and the greatest value of int
INT_MAX == 2147483647
INT_MIN == -INT_MAX - 1

\* doMove: the values int depth can take; for movesCount = 1 the divisor
\* log(1.0) is 0, the quotient is infinite, and the conversion of the infinite
\* floor to int is undefined: the builds give INT_MIN or INT_MAX
depthsFor(movesCount) ==
    IF LOG_MICRO[movesCount] = 0
    THEN {INT_MIN, INT_MAX}
    ELSE {depthFor(movesCount)}

\* doMove: the depth passed to chooseBestMoveRecursive for a state
rootDepth(S) == depthFor(Len(allAvailableMoves(S)))

\* distanceToNearestHouse(state, entity)
distanceOfEntity(S, entity) == distanceToNearestHouse(S, S.field.positions[entity.id])

\* doMove: the two pre-search shortcuts; the sequence holds the move a
\* shortcut returns, and is empty when none returns; if (checkMove(move))
\* takes every MoveType but ILLEGAL_MOVE, which is 0
shortcut(S) ==
    LET acrobat == Entity(S.myPlayer, ACROBAT, FALSE)
        magician == Entity(S.myPlayer, MAGICIAN, FALSE)
        clown1 == Entity(S.myPlayer, CLOWN, FALSE)
        clown2 == Entity(S.myPlayer, CLOWN, TRUE)
        toAcrobat == Move(S.field.positions[magician.id], S.field.positions[acrobat.id])
        toClown1 == Move(S.field.positions[magician.id], S.field.positions[clown1.id])
        toClown2 == Move(S.field.positions[magician.id], S.field.positions[clown2.id])
    IN  IF /\ distanceOfEntity(S, acrobat) <= 2
           /\ distanceOfEntity(S, magician) > 2
           /\ checkMove(S.field, toAcrobat) # ILLEGAL_MOVE
        THEN <<toAcrobat>>
        ELSE IF distanceOfEntity(S, magician) <= 2
        THEN IF /\ distanceOfEntity(S, clown1) > 2
                /\ checkMove(S.field, toClown1) # ILLEGAL_MOVE
             THEN <<toClown1>>
             ELSE IF /\ distanceOfEntity(S, clown2) > 2
                     /\ checkMove(S.field, toClown2) # ILLEGAL_MOVE
                  THEN <<toClown2>>
                  ELSE << >>
        ELSE << >>

\* doMove(state): the move of a shortcut, or the move of the tree search
doMove(S) ==
    IF shortcut(S) # << >>
    THEN shortcut(S)[1]
    ELSE chooseBestMoveRecursive(S, rootDepth(S)).second

(***************************************************************************)
(* Properties of the board model and of the move-legality engine.          *)
(***************************************************************************)
\* the entity with the given id stands on a house cell
OnHouse(F, id) ==
    /\ F.field[F.positions[id]].hasHouse
    /\ F.field[F.positions[id]].entity.id = id

\* C1: the grid cell the position index gives for an active entity id holds
\* exactly that entity, and no two entity ids are mapped to the same cell
PositionIndexRoundTrip ==
    /\ \A id \in field.activeEntities :
          /\ id \in DOMAIN field.positions
          /\ isInFieldBounds(field.positions[id])
          /\ field.field[field.positions[id]].entity.id = id
          /\ field.field[field.positions[id]].entity.ownerId = id \div 8
    /\ \A id1 \in EntityIds : \A id2 \in EntityIds :
          id1 # id2 => field.positions[id1] # field.positions[id2]

\* a swap has just been applied on a board where an entity has entered a house
PositionIndexWitness ==
    /\ doneSteps > 1
    /\ lastType = SWAP
    /\ field.activeEntities # EntityIds

\* C2: no active entity stands on a house cell, and no occupied house is in
\* the free-house set
HouseEntryAccounting ==
    \A c \in field.houses :
        field.field[c].entity.type # NONE_TYPE =>
            /\ field.field[c].entity.id \notin field.activeEntities
            /\ c \notin field.freeHouses

\* C3: a step never adds a cell to the free-house set nor an id to the
\* active-entity set
HouseClaimMonotonic ==
    [][/\ field'.freeHouses \subseteq field.freeHouses
       /\ field'.activeEntities \subseteq field.activeEntities]_vars

\* a house has been claimed and an entity has left the active set, and moves
\* were applied after that
HouseClaimWitness ==
    /\ doneSteps > 1
    /\ field.freeHouses # field.houses
    /\ field.activeEntities # EntityIds
    /\ lastType \in {BASE_MOVE, PUSH}


\* the entities standing on a house cell
Housed(F) == {id \in EntityIds : OnHouse(F, id)}

\* every move from a house cell and every move onto an occupied house cell is
\* classified ILLEGAL_MOVE
HouseMovesIllegal(F) ==
    /\ \A from \in F.houses : \A to \in Sources :
          checkMove(F, Move(from, to)) = ILLEGAL_MOVE
    /\ \A to \in {c \in F.houses : F.field[c].entity.type # NONE_TYPE} :
          \A from \in Sources : checkMove(F, Move(from, to)) = ILLEGAL_MOVE

\* C4: an entity standing on a house cell keeps its cell in every step, and
\* checkMove returns ILLEGAL_MOVE for every move from a house cell and for
\* every move onto an occupied house cell
HousedNeverLeave ==
    /\ [][\A id \in EntityIds :
             OnHouse(field, id) =>
                 /\ field'.positions[id] = field.positions[id]
                 /\ OnHouse(field', id)]_vars
    /\ [](HouseMovesIllegal(field))

\* two entities stand on houses: a move was applied while one was housed
HousedWitness == Cardinality(Housed(field)) > 1

Chebyshev(a, b) ==
    LET dr == Abs(a.row - b.row)
        dc == Abs(a.col - b.col)
    IN  IF dr > dc THEN dr ELSE dc

\* a cell that is no house and lies within Chebyshev distance 1 of t
InZone(F, cell, t) ==
    /\ Chebyshev(cell, t) <= 1
    /\ ~(isInFieldBounds(cell) /\ F.field[cell].hasHouse)

\* the cells holding an entity of the given player
CellsOf(F, player) ==
    {c \in FieldCells : F.field[c].entity.type # NONE_TYPE /\ F.field[c].entity.ownerId = player}

\* the cells within Chebyshev distance 1 of t
ZoneCells(t) == {Cell(t.row + dr, t.col + dc) : dr \in {-1, 0, 1}, dc \in {-1, 0, 1}}

\* C5: while the Trainer of player P is active at cell T, every move of an
\* entity of the other player whose from-cell or to-cell is a non-house cell
\* within Chebyshev distance 1 of T is classified ILLEGAL_MOVE
TrainerBlocking ==
    \A P \in {0, 1} :
        idOf(P, TRAINER, FALSE) \in field.activeEntities =>
           LET T == field.positions[idOf(P, TRAINER, FALSE)]
           IN  \A from \in CellsOf(field, 1 - P) :
                  /\ InZone(field, from, T) =>
                        \A to \in Sources :
                           checkMove(field, Move(from, to)) = ILLEGAL_MOVE
                  /\ \A to \in ZoneCells(T) :
                        InZone(field, to, T) =>
                           checkMove(field, Move(from, to)) = ILLEGAL_MOVE

\* an entity stands on a non-house cell next to the active Trainer of the
\* other player
TrainerBlockingWitness ==
    \E P \in {0, 1} :
        /\ idOf(P, TRAINER, FALSE) \in field.activeEntities
        /\ \E from \in CellsOf(field, 1 - P) :
              InZone(field, from, field.positions[idOf(P, TRAINER, FALSE)])

\* C6: checkMove returns PUSH only for a Strongman moving onto a cell that
\* holds an entity, and applying the move puts that entity on to + (to - from)
PushOnlyOntoEntity ==
    LET occupied == OccupiedCells(field)
    IN  \A from \in occupied : \A to \in Targets(occupied, from) :
           checkMove(field, Move(from, to)) = PUSH =>
              /\ field.field[from].entity.type = STRONGMAN
              /\ field.field[to].entity.type # NONE_TYPE
              /\ FieldDoMove(field, Move(from, to)).field[
                     Cell(2 * to.row - from.row, 2 * to.col - from.col)].entity
                    = field.field[to].entity

\* C7: no step puts an entity onto a house cell by a displacement with a
\* non-zero row component and a non-zero column component
NoDiagonalHouseEntry ==
    [][\A id \in EntityIds :
          (/\ field'.positions[id] # field.positions[id]
           /\ field'.field[field'.positions[id]].hasHouse)
          => \/ field'.positions[id].row = field.positions[id].row
             \/ field'.positions[id].col = field.positions[id].col]_vars

\* the non-zero offsets of the 8-neighbourhood
Offsets == {d \in {-1, 0, 1} \X {-1, 0, 1} : d # <<0, 0>>}

StrongmanIds == {idOf(p, STRONGMAN, second) : p \in {0, 1}, second \in BOOLEAN}

\* a Strongman with the given id stands at s, an entity at s + d, and s + 2d is
\* an empty cell of the grid
PushSetting(F, id, d) ==
    LET s == F.positions[id]
        to == Cell(s.row + d[1], s.col + d[2])
        next == Cell(s.row + 2 * d[1], s.col + 2 * d[2])
    IN  /\ F.field[s].entity.id = id
        /\ isInFieldBounds(to)
        /\ F.field[to].entity.type # NONE_TYPE
        /\ isInFieldBounds(next)
        /\ F.field[next].entity.type = NONE_TYPE

\* after the move s -> s + d is applied, the Strongman is on s + d, the entity
\* that was there is on s + 2d, and s is empty
PushResult(F, id, d) ==
    LET s == F.positions[id]
        to == Cell(s.row + d[1], s.col + d[2])
        next == Cell(s.row + 2 * d[1], s.col + 2 * d[2])
        G == FieldDoMove(F, Move(s, to))
    IN  /\ G.field[to].entity = F.field[s].entity
        /\ G.positions[id] = to
        /\ G.field[next].entity = F.field[to].entity
        /\ G.positions[F.field[to].entity.id] = next
        /\ G.field[s].entity = NONE_ENTITY

\* C8 as stated: for a Strongman at s, an entity at s + d and an empty cell of
\* the grid at s + 2d, applying s -> s + d moves the Strongman to s + d and the
\* entity to s + 2d and empties s
PushSemantics ==
    \A id \in StrongmanIds : \A d \in Offsets :
        PushSetting(field, id, d) => PushResult(field, id, d)

\* C8 as amended: the same, for the moves that checkMove classifies PUSH
PushSemanticsOfPush ==
    \A id \in StrongmanIds : \A d \in Offsets :
        (/\ PushSetting(field, id, d)
         /\ checkMove(field, Move(field.positions[id],
                                  Cell(field.positions[id].row + d[1],
                                       field.positions[id].col + d[2]))) = PUSH)
        => PushResult(field, id, d)

\* a Strongman stands next to an entity with an empty cell behind it, and the
\* move onto that entity is classified PUSH
PushSemanticsWitness ==
    \E id \in StrongmanIds : \E d \in Offsets :
        /\ PushSetting(field, id, d)
        /\ checkMove(field, Move(field.positions[id],
                                 Cell(field.positions[id].row + d[1],
                                      field.positions[id].col + d[2]))) = PUSH

\* C9: State::doMove does not complete for a move that checkMove classifies
\* ILLEGAL_MOVE: no state follows the application of such a move
IllegalMoveRejected == ~(doneSteps > 0 /\ lastType = ILLEGAL_MOVE)

\* C10: the sentinel move is classified NO_MOVE, and applying it once or twice
\* leaves the grid, the position index, the active-entity set and the
\* free-house set as they are
PassIdempotent ==
    /\ checkMove(field, NONE_MOVE) = NO_MOVE
    /\ FieldDoMove(field, NONE_MOVE) = field
    /\ FieldDoMove(FieldDoMove(field, NONE_MOVE), NONE_MOVE) = field

\* the sentinel move has just been applied to a board on which an entity has
\* entered a house
PassWitness ==
    /\ doneSteps > 1
    /\ lastType = NO_MOVE
    /\ field.activeEntities # EntityIds

\* the moves of the current board that checkMove classifies SWAP
SwapMoves(F) ==
    LET occupied == OccupiedCells(F)
    IN  {m \in {Move(from, to) : from \in occupied, to \in occupied} :
            checkMove(F, m) = SWAP}

\* C11: applying a move classified SWAP puts the Magician on to and the target
\* entity on from, records both in the position index, leaves every other
\* cell, the active entities and the free houses as they are; neither from
\* nor to is a house cell
SwapEffect ==
    LET occupied == OccupiedCells(field)
    IN  \A from \in occupied : \A to \in occupied :
           checkMove(field, Move(from, to)) = SWAP =>
              LET G == FieldDoMove(field, Move(from, to))
                  magician == field.field[from].entity
                  assistant == field.field[to].entity
              IN  /\ magician.type = MAGICIAN
                  /\ G.field[to].entity = magician
                  /\ G.field[from].entity = assistant
                  /\ G.positions[magician.id] = to
                  /\ G.positions[assistant.id] = from
                  /\ \A c \in FieldCells \ {from, to} : G.field[c] = field.field[c]
                  /\ \A id \in (DOMAIN field.positions) \ {magician.id, assistant.id} :
                        G.positions[id] = field.positions[id]
                  /\ G.activeEntities = field.activeEntities
                  /\ G.freeHouses = field.freeHouses
                  /\ G.houses = field.houses
                  /\ ~field.field[from].hasHouse
                  /\ ~field.field[to].hasHouse

\* a swap has just been applied, and the board offers a swap with an entity
\* of the other player
SwapEffectWitness ==
    /\ lastType = SWAP
    /\ \E m \in SwapMoves(field) :
          field.field[m.to].entity.ownerId # field.field[m.from].entity.ownerId

\* C12: checkMove returns SWAP only for a Magician moving onto a cell that
\* holds an entity of its owner or an entity of the other player that is
\* neither a Trainer nor a Magician; a Magician's move onto the cell of the
\* other player's Trainer is classified ILLEGAL_MOVE
SwapLegality ==
    /\ LET occupied == OccupiedCells(field)
       IN  \A from \in occupied : \A to \in Targets(occupied, from) :
          checkMove(field, Move(from, to)) = SWAP =>
             LET mover == field.field[from].entity
                 target == field.field[to].entity
             IN  /\ mover.type = MAGICIAN
                 /\ target.type # NONE_TYPE
                 /\ \/ target.ownerId = mover.ownerId
                    \/ (target.type # TRAINER /\ target.type # MAGICIAN)
    /\ \A P \in {0, 1} :
          LET M == field.positions[idOf(P, MAGICIAN, FALSE)]
              T == field.positions[idOf(1 - P, TRAINER, FALSE)]
          IN  checkMove(field, Move(M, T)) = ILLEGAL_MOVE

\* a Magician stands on a non-house cell outside the zone of the other
\* player's Trainer, which is housed, and a move was applied after that
SwapLegalityWitness ==
    \E P \in {0, 1} :
        /\ idOf(P, MAGICIAN, FALSE) \in field.activeEntities
        /\ idOf(1 - P, TRAINER, FALSE) \notin field.activeEntities
        /\ OnHouse(field, idOf(1 - P, TRAINER, FALSE))


\* C13: on the initial board, for player 0's Acrobat on its start cell and a
\* cell of freeHouses one orthogonal step away, checkMove returns BASE_MOVE
\* for that step, and applying it puts the Acrobat on the house cell, takes
\* the Acrobat out of the active entities and the house out of freeHouses
AcrobatScenario ==
    doneSteps = 0 =>
        LET start == Cell(rowForPlayer(0, 0), 0)
            acrobat == Entity(0, ACROBAT, FALSE)
        IN  \A to \in {Cell(start.row + 1, start.col), Cell(start.row - 1, start.col),
                       Cell(start.row, start.col + 1), Cell(start.row, start.col - 1)} :
               (/\ field.field[start].entity = acrobat
                /\ isInFieldBounds(to)
                /\ to \in field.freeHouses)
               => LET G == FieldDoMove(field, Move(start, to))
                  IN  /\ checkMove(field, Move(start, to)) = BASE_MOVE
                      /\ G.field[to].entity = acrobat
                      /\ G.positions[acrobat.id] = to
                      /\ acrobat.id \notin G.activeEntities
                      /\ to \notin G.freeHouses


\* the moves in the sequence returned by allAvailableMoves
Enumerated(S) ==
    LET moves == allAvailableMoves(S)
    IN  {moves[i] : i \in 1..Len(moves)}

\* C14: every move from a cell that holds an entity of the current player
\* which checkMove classifies BASE_MOVE, DOUBLE_MOVE, SWAP or PUSH is in the
\* sequence returned by allAvailableMoves
EnumeratorComplete ==
    LET occupied == OccupiedCells(field)
        enumerated == Enumerated(state)
    IN  \A from \in CellsOf(field, currentPlayer) : \A to \in Targets(occupied, from) :
           checkMove(field, Move(from, to)) \in {BASE_MOVE, DOUBLE_MOVE, SWAP, PUSH}
              => Move(from, to) \in enumerated

\* C15: if the move from the cell of the current player's Magician to the
\* cell of an active entity is classified SWAP, the sequence returned by
\* allAvailableMoves contains it
EnumeratorSurfacesSwaps ==
    LET M == field.positions[idOf(currentPlayer, MAGICIAN, FALSE)]
        enumerated == Enumerated(state)
    IN  \A id \in field.activeEntities :
           checkMove(field, Move(M, field.positions[id])) = SWAP
              => Move(M, field.positions[id]) \in enumerated

\* C16: the sequence returned by allAvailableMoves contains the sentinel
\* move, and every other move in it is classified non-Illegal and starts on
\* the cell of an active entity of the current player
EnumeratorSound ==
    LET enumerated == Enumerated(state)
    IN  /\ NONE_MOVE \in enumerated
        /\ \A m \in enumerated \ {NONE_MOVE} :
              /\ checkMove(field, m) # ILLEGAL_MOVE
              /\ \E id \in field.activeEntities :
                    /\ id \div 8 = currentPlayer
                    /\ field.positions[id] = m.from
                    /\ field.field[m.from].entity.ownerId = currentPlayer

\* moves were applied, and the sequence holds a move classified PUSH and a
\* move onto a free house
EnumeratorSoundWitness ==
    /\ doneSteps > 0
    /\ \E m \in Enumerated(state) : checkMove(field, m) = PUSH
    /\ \E m \in Enumerated(state) \ {NONE_MOVE} : m.to \in field.freeHouses


\* the greatest element of a non-empty set of integers
Greatest(values) == CHOOSE v \in values : \A w \in values : v >= w

\* the elements of a sequence
Range(seq) == {seq[i] : i \in 1..Len(seq)}

\* the states in which the main loop calls the search of the agent
AgentToMove ==
    /\ Running
    /\ currentPlayer = myPlayer
    /\ doneSteps < SearchSteps

\* the candidates with their immediate scores, and those that survive
Scored(S) == Range(scoreMoves(S, allAvailableMoves(S)))
Surviving(S) == Range(survivors(S))

\* at a level of the other player the survivors are the candidates whose
\* score is at most the minimum score + 50
PrunedToMinimum(S) ==
    LET scored == Scored(S)
        minimum == Least({p.first : p \in scored})
    IN  Surviving(S) = {p \in scored : p.first <= minimum + PRUNE_MARGIN}

\* C17: at a search level where currentPlayer # myPlayer (the level below the
\* root of the agent's search), the candidates that survive the pruning are
\* exactly those whose immediate score is at most the minimum score + 50
PruneOpponentTurn ==
    AgentToMove =>
        \A p \in Surviving(state) :
            LET level == doMoveOn(state, p.second)
            IN  level.currentPlayer # level.myPlayer => PrunedToMinimum(level)

\* C18: at a search level where currentPlayer = myPlayer, the candidates that
\* survive the pruning are exactly those whose immediate score is at least
\* the maximum score - 50; a candidate with the maximum score survives
PruneAgentTurn ==
    AgentToMove =>
        LET scored == Scored(state)
            kept == Surviving(state)
            maximum == Greatest({p.first : p \in scored})
        IN  /\ kept = {p \in scored : p.first >= maximum - PRUNE_MARGIN}
            /\ \E p \in kept : p.first = maximum
            /\ Len(survivors(state)) > 0

\* the agent is to move after a move of the other player, and the pruning
\* drops a candidate and keeps more than one
PruneAgentTurnWitness ==
    /\ AgentToMove
    /\ doneSteps > 0
    /\ Surviving(state) # Scored(state)
    /\ Cardinality(Surviving(state)) > 1

\* the value of a surviving candidate at the given depth
candidateValue(S, move, depth) ==
    IF depth = 0
    THEN stateScore(doMoveOn(S, move))
    ELSE chooseBestMoveRecursive(doMoveOn(S, move), depth - 1).first

\* chooseBestMoveRecursive(S, depth) returns a surviving candidate and its
\* value, which is the maximum of the survivors' values on the agent's turn
\* and the minimum otherwise
MinimaxAt(S, depth) ==
    LET result == chooseBestMoveRecursive(S, depth)
        kept == {p.second : p \in Surviving(S)}
        values == {candidateValue(S, move, depth) : move \in kept}
    IN  /\ result.second \in kept
        /\ result.first = candidateValue(S, result.second, depth)
        /\ result.first = IF S.currentPlayer = S.myPlayer
                          THEN Greatest(values)
                          ELSE Least(values)

\* C19: chooseBestMoveRecursive(state, d) returns (v, m) with m a surviving
\* candidate; the value of a survivor is the score of the state after it for
\* d = 0 and the value returned for that state at depth d - 1 for d > 0; v is
\* the maximum of the values on the agent's turn and the minimum otherwise
MinimaxSelection ==
    AgentToMove =>
        /\ \A d \in 0..SearchDepth : MinimaxAt(state, d)
        /\ \A p \in Surviving(state) :
              \A d \in 0..(SearchDepth - 1) : MinimaxAt(doMoveOn(state, p.second), d)

\* the agent is to move after a move of the other player, and the search of
\* depth 1 returns another value than the search of depth 0
MinimaxSelectionWitness ==
    /\ AgentToMove
    /\ doneSteps > 0
    /\ chooseBestMoveRecursive(state, 1).first # chooseBestMoveRecursive(state, 0).first


\* b^e as long as it does not exceed 200, and a number above 200 from then on
RECURSIVE Power(_, _)
Power(b, e) ==
    IF e = 0 THEN 1
    ELSE LET p == Power(b, e - 1)
         IN  IF p > NODE_BUDGET THEN p ELSE b * p

\* d is the integer with b^d <= 200 < b^(d+1), and no other integer from 0 to
\* 8 is (2^8 exceeds 200)
DepthFits(b, d) ==
    /\ d >= 0
    /\ Power(b, d) <= NODE_BUDGET
    /\ NODE_BUDGET < Power(b, d + 1)
    /\ \A e \in 0..8 : (Power(b, e) <= NODE_BUDGET /\ NODE_BUDGET < Power(b, e + 1)) => e = d

NearFreeHouse(F, cell) ==
    \E house \in F.freeHouses :
        Abs(cell.row - house.row) + Abs(cell.col - house.col) <= 2

\* the states in which the main loop calls doMove(state)
AgentTurn == Running /\ currentPlayer = myPlayer

\* the Acrobat of the agent is near a free house, its Magician is not, and the
\* move from the Magician's cell to the Acrobat's cell is not Illegal
AcrobatShortcut(S) ==
    LET M == S.field.positions[idOf(S.myPlayer, MAGICIAN, FALSE)]
        A == S.field.positions[idOf(S.myPlayer, ACROBAT, FALSE)]
    IN  /\ NearFreeHouse(S.field, A)
        /\ ~NearFreeHouse(S.field, M)
        /\ checkMove(S.field, Move(M, A)) # ILLEGAL_MOVE

\* the Magician of the agent is near a free house, the given Clown is not, and
\* the move from the Magician's cell to the Clown's cell is not Illegal
ClownShortcut(S, isSecond) ==
    LET M == S.field.positions[idOf(S.myPlayer, MAGICIAN, FALSE)]
        C == S.field.positions[idOf(S.myPlayer, CLOWN, isSecond)]
    IN  /\ NearFreeHouse(S.field, M)
        /\ ~NearFreeHouse(S.field, C)
        /\ checkMove(S.field, Move(M, C)) # ILLEGAL_MOVE

\* C21: on the agent's turn, if its Acrobat is within Manhattan distance 2 of
\* a free house, its Magician is not, and the move Magician -> Acrobat is not
\* Illegal, doMove returns that move and the search is not run; otherwise, if
\* the Magician is within distance 2, a Clown is not (the first copy before
\* the duplicate) and the move Magician -> Clown is not Illegal, doMove returns
\* that move; every move a shortcut returns is classified SWAP
PreSearchShortcuts ==
    AgentTurn =>
        LET M == field.positions[idOf(myPlayer, MAGICIAN, FALSE)]
            A == field.positions[idOf(myPlayer, ACROBAT, FALSE)]
            C1 == field.positions[idOf(myPlayer, CLOWN, FALSE)]
            C2 == field.positions[idOf(myPlayer, CLOWN, TRUE)]
        IN  /\ AcrobatShortcut(state) =>
                  /\ shortcut(state) = <<Move(M, A)>>
                  /\ doMove(state) = Move(M, A)
            /\ (~AcrobatShortcut(state) /\ ClownShortcut(state, FALSE)) =>
                  /\ shortcut(state) = <<Move(M, C1)>>
                  /\ doMove(state) = Move(M, C1)
            /\ (/\ ~AcrobatShortcut(state)
                /\ ~ClownShortcut(state, FALSE)
                /\ ClownShortcut(state, TRUE)) =>
                  /\ shortcut(state) = <<Move(M, C2)>>
                  /\ doMove(state) = Move(M, C2)
            /\ \A i \in 1..Len(shortcut(state)) :
                  checkMove(field, shortcut(state)[i]) = SWAP

\* the agent is to move after moves were applied, and the Acrobat shortcut
\* returns the move
PreSearchShortcutsWitness ==
    /\ AgentTurn
    /\ doneSteps > 0
    /\ AcrobatShortcut(state)
    /\ shortcut(state) # << >>


\* C22: player 0 moves first; every applied move, Pass included, flips the
\* side to move and adds exactly 1 to the step counter; on a step of the
\* agent exactly one move is written and none is read, on a step of the
\* opponent exactly one move is read and none is written, so that reads and
\* writes alternate
TurnProtocol ==
    /\ currentPlayer = 0
    /\ [][/\ currentPlayer' = 1 - currentPlayer
          /\ doneSteps' = doneSteps + 1
          /\ Len(io') = Len(io) + 1
          /\ SubSeq(io', 1, Len(io)) = io
          /\ currentPlayer = myPlayer => io'[Len(io')].op = "cout"
          /\ currentPlayer # myPlayer => io'[Len(io')].op = "cin"
          /\ \A i \in 1..(Len(io') - 1) : io'[i].op # io'[i + 1].op]_vars

\* a move was written and a move was read, and the last one applied was Pass
TurnProtocolWitness ==
    /\ Len(io) = 2
    /\ io[1].op # io[2].op
    /\ lastType = NO_MOVE
    /\ doneSteps = 2


\* C23: the main loop stops exactly when the step counter has reached 300 or
\* the free-house set is empty, the counter never exceeds 300, and the loop
\* stops as soon as every house cell is occupied by an entity
ExitWhenHousesOccupied ==
    /\ doneSteps <= MAX_STEPS
    /\ Running <=> ~(doneSteps >= 300 \/ field.freeHouses = {})
    /\ (\A c \in field.houses : field.field[c].entity.type # NONE_TYPE) => ~Running


\* the cells of the moves written and read so far that lie on the board, each
\* with the two characters that stand for it in the token
TokenCells ==
    {[cell |-> io[i].move.from, letter |-> io[i].str[1], digit |-> io[i].str[2]] :
        i \in 1..Len(io)}
    \cup {[cell |-> io[i].move.to, letter |-> io[i].str[4], digit |-> io[i].str[5]] :
        i \in 1..Len(io)}

PerTypeTerm ==
    \A id \in EntityIds :
        LET cell == field.positions[id]
            entity == field.field[cell].entity
            my == entity.ownerId = myPlayer
            enemy == (myPlayer + 1) % 2
            blockedBy(player) ==
                /\ idOf(player, TRAINER, FALSE) \in field.activeEntities
                /\ Chebyshev(field.positions[idOf(player, TRAINER, FALSE)], cell) <= 1
            toEnd == SCORE_DISTANCE_TO_END_MULTIPLIER * (11 - cell.col)
            toHouse == SCORE_DISTANCE_TO_HOUSE_MULTIPLIER
                          * distanceToNearestHouse(state, cell)
            distances == (IF my THEN -toEnd ELSE toEnd) + (IF my THEN -toHouse ELSE toHouse)
        IN  ~field.field[cell].hasHouse =>
                /\ entity.id = id
                /\ entity.type \in {CLOWN, STRONGMAN, ACROBAT, MAGICIAN, TRAINER}
                /\ entityScore(state, id) - distances =
                      typeScore(entity.type, my, blockedBy(enemy), blockedBy(myPlayer))


\* the valid combinations of owner, type and duplicate flag: only the Clown
\* and the Strongman have a duplicate
ValidEntities ==
    {v \in {0, 1} \X {CLOWN, STRONGMAN, ACROBAT, MAGICIAN, TRAINER} \X BOOLEAN :
        v[3] => v[2] \in {CLOWN, STRONGMAN}}

\* C27: idOf maps the 14 valid combinations of owner, type and duplicate flag
\* one-to-one onto {0..6, 8..14}, id 7 is never produced nor placed on the
\* board, and Entity(id) yields the owner and the type the id was made from
EntityIdDerivation ==
    /\ Cardinality(ValidEntities) = 14
    /\ {idOf(v[1], v[2], v[3]) : v \in ValidEntities} = (0..6) \cup (8..14)
    /\ \A v, w \in ValidEntities :
          idOf(v[1], v[2], v[3]) = idOf(w[1], w[2], w[3]) => v = w
    /\ 7 \notin DOMAIN field.positions
    /\ \A c \in FieldCells : field.field[c].entity.id # 7
    /\ \A v \in ValidEntities :
          /\ EntityById(idOf(v[1], v[2], v[3])).ownerId = v[1]
          /\ EntityById(idOf(v[1], v[2], v[3])).type = v[2]


\* the frames of one call chooseBestMoveRecursive(S, depth) with depth > 0:
\* those of the loop over all candidates, then those of the loop over the
\* candidates the pruning kept
FramesOf(S) ==
    LET kept == survivors(S)
        first == scratchLoop(scratchFrame(S), allAvailableMoves(S))
    IN  first \o scratchLoop(first[Len(first)],
                             << >> \o [i \in 1..Len(kept) |-> kept[i].second])

\* the input state of the root call on the agent's turn and the input states
\* of the calls one level below it
LevelsOf(S) == {S} \cup {doMoveOn(S, kept.second) : kept \in Range(survivors(S))}

\* C28: doMove(state) and chooseBestMoveRecursive(state, d) leave the state of
\* the caller as it was, and at every level every candidate is applied to a
\* copy equal to the input state of the level, whatever was explored before
SearchIsolation ==
    AgentToMove =>
        \A L \in LevelsOf(state) : Range(FramesOf(L)) = {[state |-> L, tmp |-> L]}

\* the agent is to move after a move of the opponent, the root has several
\* candidates, and the first of them changes the board of the scratch copy
SearchIsolationWitness ==
    /\ AgentToMove
    /\ doneSteps > 0
    /\ Len(allAvailableMoves(state)) > 1
    /\ applyScratch(scratchFrame(state), allAvailableMoves(state)[1]).tmp.field # field
    /\ Len(survivors(state)) > 1


\* C30: a move whose to-cell is empty and at Chebyshev distance exactly 1 from
\* its from-cell is classified BASE_MOVE or ILLEGAL_MOVE, never DOUBLE_MOVE,
\* PUSH or SWAP
BaseMovePrecedence ==
    \A from \in FieldCells : \A to \in ZoneCells(from) \cap FieldCells :
        (Chebyshev(from, to) = 1 /\ field.field[to].entity.type = NONE_TYPE) =>
            checkMove(field, Move(from, to)) \in {BASE_MOVE, ILLEGAL_MOVE}


\* the rules of checkMove that come before the patterns do not refuse the
\* move: both cells on the board, the from-cell no house and holding an
\* entity, the to-cell no occupied house, and neither cell within Chebyshev
\* distance 1 of the active Trainer of the mover's opponent
EarlierRulesPass(F, move) ==
    /\ isInFieldBounds(move.from) /\ isInFieldBounds(move.to)
    /\ move.from # move.to
    /\ ~F.field[move.from].hasHouse
    /\ ~(F.field[move.to].hasHouse /\ F.field[move.to].entity.type # NONE_TYPE)
    /\ F.field[move.from].entity.type # NONE_TYPE
    /\ LET trainer == idOf(1 - F.field[move.from].entity.ownerId, TRAINER, FALSE)
       IN  trainer \in F.activeEntities =>
              /\ Chebyshev(move.from, F.positions[trainer]) > 1
              /\ Chebyshev(move.to, F.positions[trainer]) > 1

\* the displacement of a double move: two cells along a row or a column, or
\* two cells along a diagonal onto a cell that is no house
JumpShape(F, move) ==
    LET difRow == move.to.row - move.from.row
        difCol == move.to.col - move.from.col
    IN  \/ difRow = 0 /\ Abs(difCol) = 2
        \/ difCol = 0 /\ Abs(difRow) = 2
        \/ Abs(difRow) = 2 /\ Abs(difCol) = 2 /\ ~F.field[move.to].hasHouse

\* the cell between the two cells of a jump
Middle(move) ==
    Cell((move.from.row + move.to.row) \div 2, (move.from.col + move.to.col) \div 2)

\* C31: checkMove returns DOUBLE_MOVE exactly when the mover is an Acrobat, the
\* earlier rules do not make the move Illegal, the to-cell is empty and the
\* displacement is (0,+-2), (+-2,0), or (+-2,+-2) onto a non-house cell; the
\* result is the same with the cell jumped over emptied
DoubleMoveRule ==
    \A from \in OccupiedCells(field) : \A to \in Near(from) \cap FieldCells :
        /\ checkMove(field, Move(from, to)) = DOUBLE_MOVE
              <=> /\ field.field[from].entity.type = ACROBAT
                  /\ EarlierRulesPass(field, Move(from, to))
                  /\ field.field[to].entity.type = NONE_TYPE
                  /\ JumpShape(field, Move(from, to))
        /\ (Abs(to.row - from.row) \in {0, 2} /\ Abs(to.col - from.col) \in {0, 2}
            /\ from # to) =>
              checkMove([field EXCEPT !.field[Middle(Move(from, to))].entity = NONE_ENTITY],
                        Move(from, to))
                 = checkMove(field, Move(from, to))

\* a double move has been applied, and an Acrobat has a double move over an
\* occupied cell and one over an empty cell
DoubleMoveWitness ==
    /\ lastType = DOUBLE_MOVE
    /\ \E from \in OccupiedCells(field) : \E to \in Near(from) \cap FieldCells :
          /\ checkMove(field, Move(from, to)) = DOUBLE_MOVE
          /\ field.field[Middle(Move(from, to))].entity.type # NONE_TYPE
    /\ \E from \in OccupiedCells(field) : \E to \in Near(from) \cap FieldCells :
          /\ checkMove(field, Move(from, to)) = DOUBLE_MOVE
          /\ field.field[Middle(Move(from, to))].entity.type = NONE_TYPE


\* the board with the position of the given Trainer taken off the grid, so
\* that no cell of the board is within distance 1 of it
WithoutZone(F, trainer) == [F EXCEPT !.positions[trainer] = NONE_CELL]

\* C32: while the Trainer of player P is not in the active set, checkMove
\* classifies every move of an entity of the other player as it does on the
\* board where the zone of that Trainer is disabled: no such move is Illegal
\* because of its distance to the Trainer's cell
HousedTrainerNoBlock ==
    \A P \in {0, 1} :
        idOf(P, TRAINER, FALSE) \notin field.activeEntities =>
            \A from \in CellsOf(field, 1 - P) :
                \A to \in Targets(OccupiedCells(field), from) :
                    checkMove(field, Move(from, to))
                       = checkMove(WithoutZone(field, idOf(P, TRAINER, FALSE)), Move(from, to))

\* a Trainer is housed, and a move of the other player with a cell within
\* Chebyshev distance 1 of the housed Trainer is classified non-Illegal
HousedTrainerWitness ==
    \E P \in {0, 1} :
        /\ idOf(P, TRAINER, FALSE) \notin field.activeEntities
        /\ OnHouse(field, idOf(P, TRAINER, FALSE))
        /\ \E from \in CellsOf(field, 1 - P) : \E to \in Near(from) \cap FieldCells :
              /\ \/ Chebyshev(from, field.positions[idOf(P, TRAINER, FALSE)]) <= 1
                 \/ Chebyshev(to, field.positions[idOf(P, TRAINER, FALSE)]) <= 1
              /\ checkMove(field, Move(from, to)) \notin {ILLEGAL_MOVE, NO_MOVE}


\* C33: every house cell that is not in the free-house set holds an entity,
\* and the number of active entities minus the number of free houses is what
\* it was on the initial board, 14 - 13 = 1
HouseConsumedByOccupant ==
    /\ \A c \in field.houses \ field.freeHouses : field.field[c].entity.type # NONE_TYPE
    /\ Cardinality(field.activeEntities) - Cardinality(field.freeHouses) = 1


\* the move is Pass, or it is classified non-Illegal on the board of S and
\* its from-cell holds an entity of the agent
LegalOwnMove(S, move) ==
    \/ move = NONE_MOVE
    \/ /\ checkMove(S.field, move) # ILLEGAL_MOVE
       /\ isInFieldBounds(move.from)
       /\ S.field.field[move.from].entity.type # NONE_TYPE
       /\ S.field.field[move.from].entity.ownerId = S.myPlayer

\* C34: on the agent's turn the move returned by doMove, by a shortcut or by
\* the tree search, is Pass or a move classified non-Illegal on the current
\* board whose from-cell holds an entity of myPlayer, so that the State::doMove
\* that follows applies no Illegal move
AgentPlaysLegalOwnMoves ==
    /\ AgentTurn => \A move \in Range(shortcut(state)) : LegalOwnMove(state, move)
    /\ AgentToMove =>
          \A move \in {doMove(state)} :
              /\ LegalOwnMove(state, move)
              /\ checkMove(field, move) # ILLEGAL_MOVE

\* the agent is to move after a move of the opponent, no shortcut applies, and
\* the tree search returns a move of one of the agent's entities
AgentPlaysWitness ==
    /\ AgentToMove
    /\ doneSteps > 0
    /\ shortcut(state) = << >>
    /\ \E move \in {doMove(state)} : move # NONE_MOVE /\ LegalOwnMove(state, move)


\* C35: every applied move that changes the board has on its from-cell an
\* entity of the player whose turn it is, and a move read from the opponent
\* whose from-cell holds an entity of the agent is classified ILLEGAL_MOVE
MoveOwnership ==
    [][LET move == io'[Len(io')].move
       IN  /\ field' # field =>
                /\ isInFieldBounds(move.from)
                /\ field.field[move.from].entity.type # NONE_TYPE
                /\ field.field[move.from].entity.ownerId = currentPlayer
           /\ (/\ currentPlayer # myPlayer
               /\ isInFieldBounds(move.from)
               /\ field.field[move.from].entity.type # NONE_TYPE
               /\ field.field[move.from].entity.ownerId = myPlayer) =>
                lastType' = ILLEGAL_MOVE]_vars


\* C36: applying a non-Illegal move whose from-cell holds an entity of player
\* P leaves the Trainer of the other player on its cell: it is neither swapped
\* by a Magician nor pushed by a Strongman of P
TrainerNotDisplaced ==
    \A from \in OccupiedCells(field) : \A to \in Targets(OccupiedCells(field), from) :
        checkMove(field, Move(from, to)) \notin {ILLEGAL_MOVE, NO_MOVE} =>
            LET trainer == idOf(1 - field.field[from].entity.ownerId, TRAINER, FALSE)
                after == FieldDoMove(field, Move(from, to))
            IN  /\ after.positions[trainer] = field.positions[trainer]
                /\ after.field[field.positions[trainer]].entity.id = trainer

\* a push or a swap has been applied, and a Strongman or a Magician has a
\* non-Illegal move within two cells of the Trainer of the other player
TrainerNotDisplacedWitness ==
    /\ lastType \in {PUSH, SWAP}
    /\ \E from \in OccupiedCells(field) : \E to \in Targets(OccupiedCells(field), from) :
          /\ field.field[from].entity.type \in {STRONGMAN, MAGICIAN}
          /\ checkMove(field, Move(from, to)) \in {PUSH, SWAP}
          /\ Chebyshev(to, field.positions[idOf(1 - field.field[from].entity.ownerId,
                                                TRAINER, FALSE)]) <= 2


\* C37: on the agent's turn, also when Pass is its only candidate, doMove
\* computes a finite depth that is not negative, so that the recursive search
\* terminates
DepthDefined ==
    AgentTurn =>
        \A depth \in depthsFor(Len(allAvailableMoves(state))) :
            depth >= 0 /\ depth <= NODE_BUDGET


====
